---- MODULE Spec2Model ----
\* graphjoiner/requests.py: compilation of a parsed GraphQL document into a
\* Request tree (request_from_graphql_document and its helpers).
\*
\* The parsed document is a graph of mutable Python objects.  The only objects
\* the compiler ever mutates in place are the `selections` lists of selection
\* sets (the `+=` of _merge_fields), so the heap is modelled as `lists`, a
\* sequence of selection lists addressed by their index; every AST node is a
\* value that names its selection list by index.  A shallow copy of a node or
\* of a selection set therefore denotes the same list, as copy.copy does.
EXTENDS Integers, Sequences, FiniteSets, TLC

VARIABLES
    document,   \* the Document object: its top-level definitions
    parsed,     \* the selection lists as the parser built them
    lists,      \* the heap of selection lists the document's nodes refer to
    before,     \* `lists` as it was when the last call started
    variables,  \* the variable bindings of the last call
    result,     \* the outcome of the last call: returned DocumentRequest or raised error
    trace,      \* what each _graphql_selections invocation of the last call collected and returned
    calls       \* number of request_from_graphql_document calls made on the document

vars == <<document, parsed, lists, before, variables, result, trace, calls>>

----------------------------------------------------------------------------
\* Bounds of the model

\* total cost of a document drawn over the full alphabet: one per selection,
\* alias, argument list and directive (see HeadCost)
MaxCost == 3
\* number of selections of a document drawn over the undecorated alphabet
MaxPlain == 4
\* cost of the documents over plain fields and fields under @skip(if: $x)
MaxSkip == 5

\* number of selections of the documents that select a field both directly
\* and through a fragment
MaxSpread == 5

\* the documents with any number of operations have up to MaxDefinitions
\* definitions
MaxDefinitions == 2

\* number of calls made on one document object
MaxCalls == 2
\* depth of nested Python calls after which the interpreter raises RecursionError
RecursionLimit == 6
\* length of a list after which the interpreter raises MemoryError
MemoryLimit == 12

----------------------------------------------------------------------------
\* Python values

None == "None"
\* a selection set that is None
NoList == 0

\* Optional values that are not strings: <<>> is None, <<v>> is v
Nothing == <<>>
Some(v) == <<v>>

\* outcome of a call that may raise
Return(v) == [err |-> Nothing, val |-> v]
Raise(type, arg) == [err |-> Some([type |-> type, arg |-> arg]), val |-> Nothing]
Raised(r) == r.err # Nothing

KeyError(key) == Raise("KeyError", key)
AttributeError(attr) == Raise("AttributeError", attr)
RecursionError == Raise("RecursionError", "maximum recursion depth exceeded")
MemoryError == Raise("MemoryError", "")

----------------------------------------------------------------------------
\* The schema handed to the compiler: types exposing fields(), whose
\* descriptors carry the target type and the declared arguments.

Descriptor(name, target, args) == [name |-> name, target |-> target, args |-> args]

\* root.fields(): the registry of a type, name -> descriptor
Registry(type) ==
    CASE type = "Root" ->
            [n \in {"a", "b"} |-> Descriptor(n, "T", IF n = "a" THEN {"n"} ELSE {})]
      [] type = "Mutation" ->
            [n \in {"b"} |-> Descriptor(n, "T", {})]
      [] OTHER ->
            [n \in {"a", "c"} |-> Descriptor(n, "T", IF n = "a" THEN {"n"} ELSE {})]

query_root == "Root"
mutation_root == "Mutation"

----------------------------------------------------------------------------
\* AST nodes

Field(name, alias, arguments, directives, selection_set) ==
    [kind |-> "Field", name |-> name, alias |-> alias, arguments |-> arguments,
     directives |-> directives, selection_set |-> selection_set]

\* An InlineFragment object has no `name` attribute; name = None marks that.
InlineFragment(directives, selection_set) ==
    [kind |-> "InlineFragment", name |-> None, alias |-> None, arguments |-> <<>>,
     directives |-> directives, selection_set |-> selection_set]

FragmentSpread(name, directives) ==
    [kind |-> "FragmentSpread", name |-> name, alias |-> None, arguments |-> <<>>,
     directives |-> directives, selection_set |-> NoList]

Argument(name, value) == [name |-> name, value |-> value]
Directive(name, arguments) == [name |-> name, arguments |-> arguments]

OperationDefinition(operation, selection_set) ==
    [kind |-> "OperationDefinition", operation |-> operation, name |-> None,
     selection_set |-> selection_set]

FragmentDefinition(name, selection_set) ==
    [kind |-> "FragmentDefinition", operation |-> None, name |-> name,
     selection_set |-> selection_set]

----------------------------------------------------------------------------
\* Request and DocumentRequest

\* mutant: the children are stored in the join_selections slot as well
Request_joined(key, field, args, selections, join_selections) ==
    [key |-> key, field |-> field, args |-> args, selections |-> selections,
     join_selections |-> IF selections = Nothing THEN <<>> ELSE selections[1]]

Request(key, field, args, selections, join_selections) ==
    [key |-> key, field |-> field, args |-> args, selections |-> selections,
     join_selections |-> join_selections]

DocumentRequest(query, schema_query) ==
    [status |-> "returned", query |-> query, schema_query |-> schema_query]

----------------------------------------------------------------------------
\* Argument values (graphql.execution.values, as the compiler calls it)

\* a Boolean value node evaluated under the variable bindings
value_from_ast(value, vs) ==
    IF value = "$x" THEN (IF vs.x THEN "True" ELSE "False") ELSE value

\* get_argument_values(Graphql{Skip,Include}Directive.args, ...).get("if")
DirectiveIf(directive, vs) ==
    IF directive.arguments = <<>> THEN None
    ELSE value_from_ast(directive.arguments[1].value, vs)

\* get_argument_values(field.args, ast.arguments, variables): the declared
\* arguments the selection supplies, by name
get_argument_values(arg_defs, arg_asts, vs) ==
    [n \in {d \in arg_defs : \E i \in 1..Len(arg_asts) : arg_asts[i].name = d} |->
        arg_asts[CHOOSE i \in 1..Len(arg_asts) : arg_asts[i].name = n].value]

----------------------------------------------------------------------------
\* _field_name, field_key

_field_name(ast) == ast.name

field_key(ast) ==
    IF ast.alias = None THEN _field_name(ast) ELSE ast.alias

----------------------------------------------------------------------------
\* _should_include_node

SkipExcludes(directive, vs) == DirectiveIf(directive, vs) = "True"

\* mutant: `if not args.get("if")` instead of `is False`: an include without
\* `if` excludes
IncludeExcludes_unless_true(directive, vs) == DirectiveIf(directive, vs) # "True"

IncludeExcludes(directive, vs) == DirectiveIf(directive, vs) = "False"

RECURSIVE ShouldIncludeLoop(_, _, _)
ShouldIncludeLoop(directives, i, vs) ==
    IF i > Len(directives) THEN Return(TRUE)
    ELSE LET directive == directives[i]
             name == directive.name
         IN  IF name = "skip"
             THEN IF SkipExcludes(directive, vs) THEN Return(FALSE)
                  ELSE ShouldIncludeLoop(directives, i + 1, vs)
             ELSE IF name = "include"
             THEN IF IncludeExcludes(directive, vs) THEN Return(FALSE)
                  ELSE ShouldIncludeLoop(directives, i + 1, vs)
             ELSE Raise("Exception", name)

\* mutant: a directive that is neither skip nor include is passed over
RECURSIVE ShouldIncludeLoop_lenient(_, _, _)
ShouldIncludeLoop_lenient(directives, i, vs) ==
    IF i > Len(directives) THEN Return(TRUE)
    ELSE IF directives[i].name = "skip" /\ SkipExcludes(directives[i], vs) THEN Return(FALSE)
    ELSE IF directives[i].name = "include" /\ IncludeExcludes(directives[i], vs)
    THEN Return(FALSE)
    ELSE ShouldIncludeLoop_lenient(directives, i + 1, vs)

_should_include_node_lenient(node, vs) == ShouldIncludeLoop_lenient(node.directives, 1, vs)

_should_include_node(node, vs) == ShouldIncludeLoop(node.directives, 1, vs)

----------------------------------------------------------------------------
\* _add_fields, _collect_fields
\* env = [fragments, variables]; heap is the current content of the lists

RECURSIVE _add_fields(_, _, _, _, _)
RECURSIVE AddFieldsLoop(_, _, _, _, _, _)

\* the `for selection in ast.selection_set.selections` loop, from index i
AddFieldsLoop(heap, selections, i, field_selections, env, depth) ==
    IF i > Len(selections) THEN Return(field_selections)
    ELSE LET selection == selections[i]
             include == _should_include_node(selection, env.variables)
         IN  IF Raised(include) THEN include
             ELSE IF ~include.val
             THEN AddFieldsLoop(heap, selections, i + 1, field_selections, env, depth)
             ELSE IF selection.kind = "Field"
             THEN AddFieldsLoop(heap, selections, i + 1,
                                Append(field_selections, selection), env, depth)
             ELSE LET inner ==
                          IF selection.kind = "FragmentSpread"
                          THEN IF selection.name \in DOMAIN env.fragments
                               THEN _add_fields(heap, env.fragments[selection.name],
                                                field_selections, env, depth + 1)
                               ELSE KeyError(selection.name)
                          ELSE _add_fields(heap, selection, field_selections, env, depth + 1)
                  IN  IF Raised(inner) THEN inner
                      ELSE AddFieldsLoop(heap, selections, i + 1, inner.val, env, depth)

\* mutant: a spread of a name that has no definition is passed over, as with
\* fragments.get(name)
RECURSIVE _add_fields_lenient(_, _, _, _, _)
RECURSIVE AddFieldsLoop_lenient(_, _, _, _, _, _)
AddFieldsLoop_lenient(heap, selections, i, field_selections, env, depth) ==
    IF i > Len(selections) THEN Return(field_selections)
    ELSE LET selection == selections[i]
             include == _should_include_node(selection, env.variables)
         IN  IF Raised(include) THEN include
             ELSE IF ~include.val
             THEN AddFieldsLoop_lenient(heap, selections, i + 1, field_selections, env, depth)
             ELSE IF selection.kind = "Field"
             THEN AddFieldsLoop_lenient(heap, selections, i + 1,
                                        Append(field_selections, selection), env, depth)
             ELSE LET inner ==
                          IF selection.kind = "FragmentSpread"
                          THEN IF selection.name \in DOMAIN env.fragments
                               THEN _add_fields_lenient(heap, env.fragments[selection.name],
                                                        field_selections, env, depth + 1)
                               ELSE Return(field_selections)
                          ELSE _add_fields_lenient(heap, selection, field_selections,
                                                   env, depth + 1)
                  IN  IF Raised(inner) THEN inner
                      ELSE AddFieldsLoop_lenient(heap, selections, i + 1, inner.val, env, depth)

_add_fields_lenient(heap, ast, field_selections, env, depth) ==
    IF depth > RecursionLimit THEN RecursionError
    ELSE AddFieldsLoop_lenient(heap, heap[ast.selection_set], 1, field_selections, env, depth)

_add_fields(heap, ast, field_selections, env, depth) ==
    IF depth > RecursionLimit THEN RecursionError
    ELSE AddFieldsLoop(heap, heap[ast.selection_set], 1, field_selections, env, depth)

_collect_fields(heap, ast, env, depth) == _add_fields(heap, ast, <<>>, env, depth)

----------------------------------------------------------------------------
\* _merge_fields: `merged` is the OrderedDict, held as the sequence of its
\* values in insertion order; the key of a value is its field_key.

\* mutant: a key is never found in the mapping, so nothing is merged
HasKey_never(merged, key) == FALSE

\* `key in merged`
HasKey(merged, key) == \E j \in 1..Len(merged) : field_key(merged[j]) = key

Stored(merged, key) == merged[CHOOSE j \in 1..Len(merged) : field_key(merged[j]) = key]

\* mutant: the selections of the incoming selection are not added
ExtendInPlace_not(heap, target, source) == heap

\* merged[key].selection_set.selections += selection.selection_set.selections:
\* list.__iadd__ extends, in place, the list the shallow copies share
ExtendInPlace(heap, target, source) ==
    [heap EXCEPT ![target] = @ \o heap[source]]

RECURSIVE MergeLoop(_, _, _, _)

\* mutant: a later leaf selection of a key takes the place of the stored one
MergeLoop_last(heap, selections, i, merged) ==
    IF i > Len(selections) THEN [lists |-> heap, out |-> Return(merged)]
    ELSE LET selection == selections[i]
             key == field_key(selection)
         IN  IF HasKey(merged, key) /\ selection.selection_set = NoList
             THEN MergeLoop(heap, selections, i + 1,
                            [j \in 1..Len(merged) |->
                                IF field_key(merged[j]) = key
                                   /\ merged[j].selection_set = NoList
                                THEN selection ELSE merged[j]])
             ELSE IF HasKey(merged, key)
             THEN IF Stored(merged, key).selection_set = NoList
                  THEN [lists |-> heap, out |-> AttributeError("selections")]
                  ELSE IF Len(heap[Stored(merged, key).selection_set])
                          + Len(heap[selection.selection_set]) > MemoryLimit
                  THEN [lists |-> heap, out |-> MemoryError]
                  ELSE MergeLoop(ExtendInPlace(heap, Stored(merged, key).selection_set,
                                               selection.selection_set),
                                 selections, i + 1, merged)
             ELSE MergeLoop(heap, selections, i + 1, Append(merged, selection))

MergeLoop(heap, selections, i, merged) ==
    IF i > Len(selections) THEN [lists |-> heap, out |-> Return(merged)]
    ELSE LET selection == selections[i]
             key == field_key(selection)
         IN  IF HasKey(merged, key)
             THEN IF selection.selection_set # NoList
                  THEN IF Stored(merged, key).selection_set = NoList
                       THEN \* copy(None) is None, and None has no `selections`
                            [lists |-> heap, out |-> AttributeError("selections")]
                       ELSE IF Len(heap[Stored(merged, key).selection_set])
                               + Len(heap[selection.selection_set]) > MemoryLimit
                       THEN [lists |-> heap, out |-> MemoryError]
                       ELSE MergeLoop(ExtendInPlace(heap, Stored(merged, key).selection_set,
                                                    selection.selection_set),
                                      selections, i + 1, merged)
                  ELSE MergeLoop(heap, selections, i + 1, merged)
             ELSE MergeLoop(heap, selections, i + 1, Append(merged, selection))

\* mutant: the values come back in another order than they were inserted in,
\* as from a dict that does not keep insertion order
Reverse(s) == [i \in 1..Len(s) |-> s[Len(s) + 1 - i]]

_merge_fields_unordered(heap, selections) ==
    LET r == MergeLoop(heap, selections, 1, <<>>)
    IN  IF Raised(r.out) THEN r
        ELSE [lists |-> r.lists, out |-> Return(Reverse(r.out.val))]

_merge_fields(heap, selections) == MergeLoop(heap, selections, 1, <<>>)

----------------------------------------------------------------------------
\* request_from_graphql_ast, _graphql_selections, _request_from_selection
\* st = [lists, trace] is threaded through the calls in evaluation order.

\* trace event: a _graphql_selections invocation that returned, with the heap
\* it collected from, what it collected and merged, and the Requests it built
SelectionsEvent(ast, root, heap, collected, merged, selections) ==
    [event |-> "selections", ast |-> ast, root |-> root, heap |-> heap,
     collected |-> collected, merged |-> merged, selections |-> selections]

\* trace event: the registry lookup fields[name] on the registry of type root
LookupEvent(root, name) == [event |-> "fields", root |-> root, name |-> name]

\* trace event: an invocation of the binder get_argument_values for the
\* selection ast against the arguments the field descriptor declares
ArgumentsEvent(ast, field, args) ==
    [event |-> "arguments", ast |-> ast, field |-> field, args |-> args]

Log(st, e) == [st EXCEPT !.trace = Append(@, e)]

RECURSIVE request_from_graphql_ast(_, _, _, _, _, _)
RECURSIVE SelectionsLoop(_, _, _, _, _, _, _, _)

\* mutant: the sub-selections are compiled against the query root
_request_from_selection_at_root(st, selection, field, env, depth) ==
    request_from_graphql_ast(st, selection, query_root, Some(field), env, depth)

_request_from_selection(st, selection, field, env, depth) ==
    request_from_graphql_ast(st, selection, field.target, Some(field), env, depth)

\* mutant: a selection whose compilation fails is left out of the list
SelectionsLoop_partial(st, field_selections, i, requests, root, fields, env, depth) ==
    IF i > Len(field_selections) THEN [st |-> st, out |-> Return(requests)]
    ELSE LET selection == field_selections[i]
         IN  IF _field_name(selection) = "__schema"
                \/ _field_name(selection) \notin DOMAIN fields
             THEN SelectionsLoop(st, field_selections, i + 1, requests, root, fields, env, depth)
             ELSE LET r == _request_from_selection(
                               Log(st, LookupEvent(root, _field_name(selection))),
                               selection, fields[_field_name(selection)], env, depth + 1)
                  IN  IF Raised(r.out)
                      THEN SelectionsLoop(r.st, field_selections, i + 1, requests,
                                          root, fields, env, depth)
                      ELSE SelectionsLoop(r.st, field_selections, i + 1,
                                          Append(requests, r.out.val), root, fields, env, depth)

\* the list comprehension over field_selections, from index i
SelectionsLoop(st, field_selections, i, requests, root, fields, env, depth) ==
    IF i > Len(field_selections) THEN [st |-> st, out |-> Return(requests)]
    ELSE LET selection == field_selections[i]
         IN  IF _field_name(selection) = "__schema"
             THEN SelectionsLoop(st, field_selections, i + 1, requests, root, fields, env, depth)
             ELSE IF _field_name(selection) \notin DOMAIN fields
             THEN [st |-> Log(st, LookupEvent(root, _field_name(selection))),
                   out |-> KeyError(_field_name(selection))]
             ELSE LET r == _request_from_selection(
                                                   Log(st, LookupEvent(root, _field_name(selection))),
                                                   selection,
                                                   fields[_field_name(selection)],
                                                   env, depth + 1)
                  IN  IF Raised(r.out) THEN r
                      ELSE SelectionsLoop(r.st, field_selections, i + 1,
                                          Append(requests, r.out.val), root, fields, env, depth)

_graphql_selections(st, ast, root, env, depth) ==
    IF ast.selection_set = NoList THEN [st |-> st, out |-> Return(Nothing)]
    ELSE LET fields == Registry(root)
             collected == _collect_fields(st.lists, ast, env, depth)
         IN  IF Raised(collected) THEN [st |-> st, out |-> collected]
             ELSE LET m == _merge_fields(st.lists, collected.val)
                      st1 == [st EXCEPT !.lists = m.lists]
                  IN  IF Raised(m.out) THEN [st |-> st1, out |-> m.out]
                      ELSE LET c == SelectionsLoop(st1, m.out.val, 1, <<>>, root, fields, env, depth)
                           IN  IF Raised(c.out) THEN c
                               ELSE [st |-> Log(c.st, SelectionsEvent(ast, root, st.lists,
                                                                      collected.val, m.out.val,
                                                                      c.out.val)),
                                     out |-> Return(Some(c.out.val))]

\* mutant: the binder is invoked for the root too
request_from_graphql_ast_bound(st, ast, root, field, env, depth) ==
    IF depth > RecursionLimit THEN [st |-> st, out |-> RecursionError]
    ELSE LET key == IF ast.kind = "Field" THEN field_key(ast) ELSE None
             args == IF field = Nothing THEN <<>>
                     ELSE get_argument_values(field[1].args, ast.arguments, env.variables)
             s == _graphql_selections(Log(st, ArgumentsEvent(ast, field, args)),
                                      ast, root, env, depth)
         IN  IF Raised(s.out) THEN s
             ELSE [st |-> s.st,
                   out |-> Return(Request(key, field, args, s.out.val, <<>>))]

\* the arguments are bound before the sub-selections are compiled
request_from_graphql_ast(st, ast, root, field, env, depth) ==
    IF depth > RecursionLimit THEN [st |-> st, out |-> RecursionError]
    ELSE LET key == IF ast.kind = "Field" THEN field_key(ast) ELSE None
             args == IF field = Nothing THEN <<>>
                     ELSE get_argument_values(field[1].args, ast.arguments, env.variables)
             bound == IF field = Nothing THEN st
                      ELSE Log(st, ArgumentsEvent(ast, field, args))
             s == _graphql_selections(bound, ast, root, env, depth)
         IN  IF Raised(s.out) THEN s
             ELSE [st |-> s.st,
                   out |-> Return(Request(key, field, args, s.out.val, <<>>))]

----------------------------------------------------------------------------
\* request_from_graphql_document

\* util.single: the only element of a list
single(list) ==
    IF Len(list) = 1 THEN Return(list[1])
    ELSE Raise("ValueError", IF Len(list) = 0 THEN "no operation" ELSE "multiple operations")

\* util.find: the first element that satisfies the predicate
\* `selection.name.value == "__schema"`, or None; the predicate reads the
\* `name` attribute of every element it is tried on
RECURSIVE find(_, _)
find(selections, i) ==
    IF i > Len(selections) THEN Return(Nothing)
    ELSE IF selections[i].name = None THEN AttributeError("name")
    ELSE IF selections[i].name = "__schema" THEN Return(Some(selections[i]))
    ELSE find(selections, i + 1)

\* dict((definition.name.value, definition) for the FragmentDefinitions)
FragmentTable(doc) ==
    LET names == {doc.definitions[i].name :
                    i \in {j \in 1..Len(doc.definitions) :
                             doc.definitions[j].kind = "FragmentDefinition"}}
        last(n) == CHOOSE i \in 1..Len(doc.definitions) :
                      /\ doc.definitions[i].kind = "FragmentDefinition"
                      /\ doc.definitions[i].name = n
                      /\ \A j \in (i + 1)..Len(doc.definitions) :
                            ~(doc.definitions[j].kind = "FragmentDefinition"
                              /\ doc.definitions[j].name = n)
    IN  [n \in names |-> doc.definitions[last(n)]]

\* mutant: the filter lets every definition through
RECURSIVE OperationPairs_unfiltered(_, _)
OperationPairs_unfiltered(doc, i) ==
    IF i > Len(doc.definitions) THEN <<>>
    ELSE << <<i, doc.definitions[i]>> >> \o OperationPairs_unfiltered(doc, i + 1)

\* the (index, definition) pairs of the OperationDefinitions, in order
RECURSIVE OperationPairs(_, _)
OperationPairs(doc, i) ==
    IF i > Len(doc.definitions) THEN <<>>
    ELSE (IF doc.definitions[i].kind = "OperationDefinition"
          THEN << <<i, doc.definitions[i]>> >> ELSE <<>>)
         \o OperationPairs(doc, i + 1)

\* the selection set that copy(operation.selection_set) creates for the
\* schema_query document: it is no list of the input document
OwnList == -1

\* mutant: the copied operation keeps the selection set of the original
SchemaQuery_unreduced(doc, definition_index, operation, schema_selection) ==
    [definitions |-> [doc.definitions EXCEPT ![definition_index] = operation],
     selections |-> <<schema_selection>>]

\* mutant: the copied operation is stored as the first definition
SchemaQuery_first(doc, definition_index, operation, schema_selection) ==
    [definitions |->
        [doc.definitions EXCEPT ![1] = [operation EXCEPT !.selection_set = OwnList]],
     selections |-> <<schema_selection>>]

\* the document whose operation selects only schema_selection; the new
\* selection list belongs to the new document alone
SchemaQuery(doc, definition_index, operation, schema_selection) ==
    [definitions |->
        [doc.definitions EXCEPT ![definition_index] =
            [operation EXCEPT !.selection_set = OwnList]],
     selections |-> <<schema_selection>>]

\* mutant: every operation is compiled against the query root
RootFor_query(operation) == query_root

RootFor(operation) ==
    IF operation.operation = "mutation" THEN mutation_root ELSE query_root

request_from_graphql_document(doc, heap, vs) ==
    LET st0 == [lists |-> heap, trace |-> <<>>]
        env == [fragments |-> FragmentTable(doc), variables |-> vs]
        pair == single(OperationPairs(doc, 1))
    IN  IF Raised(pair) THEN [st |-> st0, out |-> pair]
        ELSE LET definition_index == pair.val[1]
                 operation == pair.val[2]
                 root == RootFor(operation)
                 schema_selection == find(heap[operation.selection_set], 1)
             IN  IF Raised(schema_selection) THEN [st |-> st0, out |-> schema_selection]
                 ELSE LET schema_query ==
                              IF schema_selection.val = Nothing THEN Nothing
                              ELSE Some(SchemaQuery(doc, definition_index, operation,
                                                    schema_selection.val[1]))
                          q == request_from_graphql_ast(st0, operation, root, Nothing, env, 1)
                      IN  IF Raised(q.out) THEN q
                          ELSE [st |-> q.st,
                                out |-> Return(DocumentRequest(q.out.val, schema_query))]

----------------------------------------------------------------------------
\* The documents handed to the compiler.  A parsed document is a tree: the
\* parser gives every selection set a list of its own.  Documents are drawn as
\* nested selections and loaded into the heap as the parser would build them.

FieldNames == {"a", "b", "c", "__schema"}

IfValues == {"True", "False", "$x"}

Directives ==
    {Directive(n, <<Argument("if", v)>>) : n \in {"skip", "include"}, v \in IfValues}
    \cup {Directive(n, <<>>) : n \in {"skip", "include", "deprecated"}}

DirectiveLists(n) == UNION {[1..k -> Directives] : k \in 0..n}

HeadCost(node) ==
    1 + (IF node.alias # None THEN 1 ELSE 0)
      + (IF node.arguments # <<>> THEN 1 ELSE 0)
      + Len(node.directives)

\* an alphabet: the selections that may stand without and with a selection set
FullAlphabet ==
    LET fields == {Field(n, al, ar, d, NoList) :
                      n \in FieldNames, al \in {None, "a"},
                      ar \in {<<>>, <<Argument("n", 1)>>},
                      d \in DirectiveLists(MaxCost - 1)}
    IN  [leaves  |-> fields \cup {FragmentSpread("F", d) : d \in DirectiveLists(MaxCost - 1)},
         parents |-> fields \cup {InlineFragment(d, NoList) : d \in DirectiveLists(MaxCost - 2)}]

PlainAlphabet ==
    LET fields == {Field(n, None, <<>>, <<>>, NoList) : n \in {"a", "c"}}
    IN  [leaves  |-> fields \cup {FragmentSpread("F", <<>>)},
         parents |-> fields]

\* the selections of the documents that repeat a field under a variable:
\* plain fields and fields under @skip(if: $x)
SkipAlphabet ==
    LET fields == {Field(n, None, <<>>, d, NoList) :
                      n \in {"a", "c"},
                      d \in {<<>>, <<Directive("skip", <<Argument("if", "$x")>>)>>}}
    IN  [leaves |-> fields, parents |-> fields]

\* the selections of the documents that select a field both directly and
\* through a fragment: the fields a and c, a alone with a selection set, and
\* the spread of F
SpreadAlphabet ==
    [leaves  |-> {Field(n, None, <<>>, <<>>, NoList) : n \in {"a", "c"}}
                    \cup {FragmentSpread("F", <<>>)},
     parents |-> {Field("a", None, <<>>, <<>>, NoList)}]

Alphabet(full) ==
    IF full = "full" THEN FullAlphabet
    ELSE IF full = "plain" THEN PlainAlphabet
    ELSE IF full = "spread" THEN SpreadAlphabet
    ELSE SkipAlphabet

RECURSIVE Selections(_, _)
RECURSIVE SelectionSeqs(_, _)

\* the nested selections of cost exactly n
Selections(full, n) ==
    {[node |-> h, sub |-> <<>>] : h \in {l \in Alphabet(full).leaves : HeadCost(l) = n}}
    \cup UNION {{[node |-> h, sub |-> s] :
                    h \in {p \in Alphabet(full).parents : HeadCost(p) = c},
                    s \in SelectionSeqs(full, n - c)} : c \in 1..(n - 1)}

\* the sequences of nested selections of total cost exactly n
SelectionSeqs(full, n) ==
    IF n = 0 THEN {<<>>}
    ELSE UNION {{<<t>> \o f : t \in Selections(full, k),
                              f \in SelectionSeqs(full, n - k)} : k \in 1..n}

\* the parser's output for a sequence of nested selections: each selection
\* set gets a fresh list on the heap
RECURSIVE LoadSelections(_, _)
LoadSelections(forest, heap) ==
    IF forest = <<>> THEN [heap |-> heap, nodes |-> <<>>]
    ELSE LET t == Head(forest)
             sub == LoadSelections(t.sub, heap)
             heap1 == IF t.sub = <<>> THEN heap ELSE Append(sub.heap, sub.nodes)
             node == [t.node EXCEPT !.selection_set =
                         IF t.sub = <<>> THEN NoList ELSE Len(heap1)]
             rest == LoadSelections(Tail(forest), heap1)
         IN  [heap |-> rest.heap, nodes |-> <<node>> \o rest.nodes]

\* a document with one operation and, when fragment # <<>>, the fragment F;
\* fragment_first puts the fragment definition before the operation
Parse(operation, fragment, fragment_first) ==
    LET o == LoadSelections(operation, <<>>)
        heap1 == Append(o.heap, o.nodes)
        f == LoadSelections(fragment, heap1)
        heap2 == Append(f.heap, f.nodes)
        op == OperationDefinition("query", Len(heap1))
        fr == FragmentDefinition("F", Len(heap2))
    IN  IF fragment = <<>> THEN [definitions |-> <<op>>, lists |-> heap1]
        ELSE [definitions |-> IF fragment_first THEN <<fr, op>> ELSE <<op, fr>>,
              lists |-> heap2]

DocumentsOver(full, n) ==
    UNION {{Parse(o, <<>>, FALSE) : o \in SelectionSeqs(full, r)} : r \in 1..n}
    \cup UNION {{Parse(o, f, ff) : o \in SelectionSeqs(full, r[1]),
                                 f \in SelectionSeqs(full, r[2]),
                                 ff \in BOOLEAN} :
                  r \in {q \in (1..n) \X (1..n) : q[1] + q[2] <= n}}

FullDocuments == DocumentsOver("full", MaxCost)
PlainDocuments == DocumentsOver("plain", MaxPlain)

\* one operation, no fragment definition
SkipDocuments ==
    UNION {{Parse(o, <<>>, FALSE) : o \in SelectionSeqs("skip", r)} : r \in 1..MaxSkip}

\* one operation of MaxSpread - 2 selections and the fragment F of two
SpreadDocuments ==
    {Parse(o, f, FALSE) : o \in SelectionSeqs("spread", MaxSpread - 2),
                          f \in SelectionSeqs("spread", 2)}

OperationKinds == {"query", "mutation", "subscription"}

\* the definitions of the documents with any number of operations: operations
\* of every kind and the fragment F, each with one selection
DefinitionAlphabet ==
    {[kind |-> "OperationDefinition", operation |-> o, name |-> None, forest |-> f] :
        o \in OperationKinds, f \in SelectionSeqs("full", 1)}
    \cup {[kind |-> "FragmentDefinition", operation |-> None, name |-> "F", forest |-> f] :
             f \in SelectionSeqs("full", 1)}

DefinitionSeqs == UNION {[1..n -> DefinitionAlphabet] : n \in 1..MaxDefinitions}

\* the parser's output for a sequence of definitions
RECURSIVE ParseDefinitions(_, _, _)
ParseDefinitions(defs, heap, definitions) ==
    IF defs = <<>> THEN [definitions |-> definitions, lists |-> heap]
    ELSE LET d == Head(defs)
             l == LoadSelections(d.forest, heap)
             heap1 == Append(l.heap, l.nodes)
             definition == IF d.kind = "OperationDefinition"
                           THEN OperationDefinition(d.operation, Len(heap1))
                           ELSE FragmentDefinition(d.name, Len(heap1))
         IN  ParseDefinitions(Tail(defs), heap1, Append(definitions, definition))

DefinitionDocuments == {ParseDefinitions(d, <<>>, <<>>) : d \in DefinitionSeqs}

Documents ==
    FullDocuments \cup PlainDocuments \cup SkipDocuments \cup SpreadDocuments
    \cup DefinitionDocuments

VariableBindings == [x : BOOLEAN]

----------------------------------------------------------------------------
\* The state machine: a parsed document, and calls of
\* request_from_graphql_document on it.

NoResult == [status |-> "none"]

\* what the caller sees of a call: the DocumentRequest or the exception
Outcome(r) ==
    IF Raised(r.out) THEN [status |-> "raised", error |-> r.out.err[1]]
    ELSE r.out.val

Init ==
    \E d \in Documents :
        /\ document = [definitions |-> d.definitions]
        /\ parsed = d.lists
        /\ lists = d.lists
        /\ before = d.lists
        /\ variables = [x |-> FALSE]
        /\ result = NoResult
        /\ trace = <<>>
        /\ calls = 0

Compile(vs) ==
    /\ calls < MaxCalls
    /\ LET r == request_from_graphql_document(document, lists, vs)
       IN  /\ lists' = r.st.lists
           /\ trace' = r.st.trace
           /\ result' = Outcome(r)
    /\ before' = lists
    /\ variables' = vs
    /\ calls' = calls + 1
    /\ UNCHANGED <<document, parsed>>

Next == \E vs \in VariableBindings : Compile(vs)

Spec == Init /\ [][Next]_vars

----------------------------------------------------------------------------
\* Properties of the outcome of a call

Returned == result.status = "returned"

RaisedError(type) == result.status = "raised" /\ result.error.type = type

\* the children of a Request, none for a leaf
Children(request) ==
    IF request.selections = Nothing THEN <<>> ELSE request.selections[1]

RECURSIVE Nodes(_)
\* the Requests of a tree
Nodes(request) ==
    {request} \cup UNION {Nodes(Children(request)[i]) : i \in 1..Len(Children(request))}

SelectionsEvents ==
    {trace[i] : i \in {j \in 1..Len(trace) : trace[j].event = "selections"}}

\* the key of the Request built for the ast of a _graphql_selections invocation
EventKey(e) == IF e.ast.kind = "Field" THEN field_key(e.ast) ELSE None

\* every Request with children was built by an invocation the trace holds
TraceCoversTree ==
    \A n \in Nodes(result.query) :
        n.selections # Nothing =>
            \E e \in SelectionsEvents : e.selections = Children(n) /\ EventKey(e) = n.key

\* index at which a key first occurs in a flattened selection sequence
FirstOccurrence(collected, key) ==
    CHOOSE i \in 1..Len(collected) :
        /\ field_key(collected[i]) = key
        /\ \A j \in 1..(i - 1) : field_key(collected[j]) # key

OrderedByFirstOccurrence(e) ==
    /\ \A i \in 1..Len(e.selections) :
          \E j \in 1..Len(e.collected) : field_key(e.collected[j]) = e.selections[i].key
    /\ \A i, j \in 1..Len(e.selections) :
          i < j => FirstOccurrence(e.collected, e.selections[i].key)
                     < FirstOccurrence(e.collected, e.selections[j].key)

\* C2: in every returned Request tree, the children of each node stand in the
\* order in which their output keys first occur in the node's flattened
\* (fragment-expanded, directive-filtered) selection sequence; a later
\* selection with a key already seen does not move the child.
C2_ChildrenInFirstOccurrenceOrder ==
    Returned =>
        /\ TraceCoversTree
        /\ \A e \in SelectionsEvents : OrderedByFirstOccurrence(e)

\* C2 witness: a returned compilation of a node whose sequence is like {b a b}:
\* a key occurs, another key occurs, the first occurs again, both kept.
C2_Witness ==
    /\ Returned
    /\ \E e \in SelectionsEvents :
          \E i, j, k \in 1..Len(e.collected) :
              /\ i < j /\ j < k
              /\ field_key(e.collected[i]) = field_key(e.collected[k])
              /\ field_key(e.collected[i]) # field_key(e.collected[j])
              /\ Len(e.selections) = 2

\* C3: in every returned Request tree, the children of any one node have
\* pairwise distinct output keys.
C3_SiblingKeysDistinct ==
    Returned =>
        \A n \in Nodes(result.query) :
            \A i, j \in 1..Len(Children(n)) :
                i # j => Children(n)[i].key # Children(n)[j].key

\* C3 witness: a returned compilation in which one node's sequence holds the
\* same key twice, once from an alias and once from a field name.
C3_Witness ==
    /\ Returned
    /\ \E e \in SelectionsEvents :
          \E i, j \in 1..Len(e.collected) :
              /\ i < j
              /\ field_key(e.collected[i]) = field_key(e.collected[j])
              /\ e.collected[i].alias # e.collected[j].alias
              /\ Len(e.selections) >= 1

----------------------------------------------------------------------------
\* The document the last call was made on

SingleOperation == Len(OperationPairs(document, 1)) = 1

OperationIndex ==
    CHOOSE i \in 1..Len(document.definitions) :
        document.definitions[i].kind = "OperationDefinition"

Operation == document.definitions[OperationIndex]

\* the operation's top-level selections when the last call started
TopLevel == before[Operation.selection_set]

\* C4: repeating an identical leaf field selection in a selection set changes
\* nothing: the call on the document that holds the repetition has the outcome
\* (Request tree, keys, order, arguments) of the call on the document without
\* it, for all calls that stay within RecursionLimit and MemoryLimit.
RemoveAt(seq, j) == SubSeq(seq, 1, j - 1) \o SubSeq(seq, j + 1, Len(seq))

RepeatedLeaf(l, i, j) ==
    /\ i < j
    /\ before[l][i] = before[l][j]
    /\ before[l][i].kind = "Field"
    /\ before[l][i].selection_set = NoList

\* the call was cut off by RecursionLimit or MemoryLimit
CutOff(outcome) ==
    /\ outcome.status = "raised"
    /\ outcome.error.type \in {"RecursionError", "MemoryError"}

C4_RepeatedLeafIsNoOp ==
    calls >= 1 =>
        \A l \in 1..Len(before) :
            \A i, j \in 1..Len(before[l]) :
                RepeatedLeaf(l, i, j) =>
                    LET without == Outcome(request_from_graphql_document(
                                       document, [before EXCEPT ![l] = RemoveAt(@, j)],
                                       variables))
                    IN  (~CutOff(result) /\ ~CutOff(without)) => without = result

\* C4 witness: a returned call on a document whose top-level selection set
\* repeats a leaf field that is compiled into a child, as in {a a}.
C4_Witness ==
    /\ Returned
    /\ \E i, j \in 1..Len(TopLevel) :
          /\ RepeatedLeaf(Operation.selection_set, i, j)
          /\ \E c \in 1..Len(Children(result.query)) :
                Children(result.query)[c].key = field_key(TopLevel[i])

----------------------------------------------------------------------------
\* Directives

\* no skip directive has `if` true and no include directive has `if` false
PassesDirectives(s, vs) ==
    \A k \in 1..Len(s.directives) :
        /\ ~(s.directives[k].name = "skip" /\ DirectiveIf(s.directives[k], vs) = "True")
        /\ ~(s.directives[k].name = "include" /\ DirectiveIf(s.directives[k], vs) = "False")

RECURSIVE Flattened(_, _, _, _)
\* the fields of a selection sequence, with the selections that pass their
\* directives expanded in place
Flattened(heap, selections, vs, fuel) ==
    IF fuel = 0 \/ selections = <<>> THEN <<>>
    ELSE LET s == Head(selections)
             here ==
                 IF ~PassesDirectives(s, vs) THEN <<>>
                 ELSE IF s.kind = "Field" THEN <<s>>
                 ELSE IF s.kind = "InlineFragment"
                 THEN Flattened(heap, heap[s.selection_set], vs, fuel - 1)
                 ELSE IF s.name \in DOMAIN FragmentTable(document)
                 THEN Flattened(heap, heap[FragmentTable(document)[s.name].selection_set],
                                vs, fuel - 1)
                 ELSE <<>>
         IN  here \o Flattened(heap, Tail(selections), vs, fuel)

\* C5: a selection (field, fragment spread, inline fragment) takes part in the
\* compilation if and only if none of its skip directives has `if` true and
\* none of its include directives has `if` false: what every returning
\* _graphql_selections invocation collected is the flattening under that
\* condition, and its children are the collected keys that are not __schema.
C5_IncludedIffDirectivesPass ==
    \A e \in SelectionsEvents :
        /\ e.collected = Flattened(e.heap, e.heap[e.ast.selection_set], variables,
                                   RecursionLimit + 1)
        /\ {e.selections[i].key : i \in 1..Len(e.selections)}
              = {field_key(e.collected[i]) :
                    i \in {j \in 1..Len(e.collected) :
                             _field_name(e.collected[FirstOccurrence(
                                 e.collected, field_key(e.collected[j]))]) # "__schema"}}

\* C5 witness: a returned call in which a selection with two directives is left
\* out by the second one although the first one lets it pass.
C5_Witness ==
    /\ Returned
    /\ \E e \in SelectionsEvents :
          \E i \in 1..Len(e.heap[e.ast.selection_set]) :
              LET s == e.heap[e.ast.selection_set][i]
              IN  /\ Len(s.directives) = 2
                  /\ s.directives[1].name = "skip"
                  /\ ~SkipExcludes(s.directives[1], variables)
                  /\ s.directives[2].name = "include"
                  /\ IncludeExcludes(s.directives[2], variables)
                  /\ ~PassesDirectives(s, variables)

\* the selections held by the lists of the document when the last call started
AllSelections == UNION {{before[l][i] : i \in 1..Len(before[l])} : l \in 1..Len(before)}

Unknown(directive) == directive.name \notin {"skip", "include"}

\* a directive before position k leaves the selection out
ExcludedBefore(s, k, vs) ==
    \E j \in 1..(k - 1) :
        \/ s.directives[j].name = "skip" /\ DirectiveIf(s.directives[j], vs) = "True"
        \/ s.directives[j].name = "include" /\ DirectiveIf(s.directives[j], vs) = "False"

FirstUnknown(s) ==
    CHOOSE k \in 1..Len(s.directives) :
        Unknown(s.directives[k]) /\ \A j \in 1..(k - 1) : ~Unknown(s.directives[j])

HasUnknown(s) == \E k \in 1..Len(s.directives) : Unknown(s.directives[k])

RaisesUnknownDirective(r, name) ==
    Raised(r) /\ r.err[1].type = "Exception" /\ r.err[1].arg = name

\* the first top-level selection is the first selection a call evaluates, when
\* looking for the __schema selection does not fail first
FirstEvaluated(s) ==
    /\ SingleOperation
    /\ s = TopLevel[1]
    /\ \A i \in 1..Len(TopLevel) : TopLevel[i].kind # "InlineFragment"

\* C6 as claimed: evaluating the inclusion of a selection that carries a
\* directive other than skip and include fails with the unknown-directive
\* error, wherever in the directive list that directive stands.
C6_UnknownDirectiveAlwaysFails ==
    calls >= 1 =>
        \A s \in AllSelections :
            HasUnknown(s) =>
                RaisesUnknownDirective(_should_include_node(s, variables),
                                       s.directives[FirstUnknown(s)].name)

\* C6, what _should_include_node does: it fails with the unknown-directive
\* error unless a directive standing before the unknown one already leaves
\* the selection out; then the selection is left out without an error.
C6_UnknownDirectiveFailsUnlessExcludedBefore ==
    calls >= 1 =>
        \A s \in AllSelections :
            HasUnknown(s) =>
                LET k == FirstUnknown(s)
                    r == _should_include_node(s, variables)
                IN  IF ExcludedBefore(s, k, variables)
                    THEN ~Raised(r) /\ r.val = FALSE
                    ELSE /\ RaisesUnknownDirective(r, s.directives[k].name)
                         /\ FirstEvaluated(s) =>
                               /\ RaisedError("Exception")
                               /\ result.error.arg = s.directives[k].name

----------------------------------------------------------------------------
\* The introspection split

\* the indices of the top-level selections named __schema
SchemaIndices == {i \in 1..Len(TopLevel) : TopLevel[i].name = "__schema"}

FirstSchemaSelection == TopLevel[CHOOSE i \in SchemaIndices : \A j \in SchemaIndices : i <= j]

\* the selection set of the operation of a schema_query document
SchemaQuerySelections(schema_query) ==
    LET set == schema_query.definitions[OperationIndex].selection_set
    IN  IF set = OwnList THEN schema_query.selections ELSE lists[set]

\* the top-level selection set is made of plain fields with distinct names,
\* each of them __schema or a leaf field of the root type
PlainTopLevel ==
    /\ SingleOperation
    /\ \A i \in 1..Len(TopLevel) :
          /\ TopLevel[i].kind = "Field"
          /\ TopLevel[i].alias = None
          /\ TopLevel[i].directives = <<>>
          /\ \/ TopLevel[i].name = "__schema"
             \/ /\ TopLevel[i].name \in DOMAIN Registry(RootFor(Operation))
                /\ TopLevel[i].selection_set = NoList
          /\ \A j \in 1..Len(TopLevel) : TopLevel[j].name = TopLevel[i].name => i = j

\* C7: when the top-level selection set of the operation has a selection named
\* __schema, the returned main tree has no node for __schema, only the data
\* fields (for a top level of plain fields: exactly the data fields), and the
\* operation of the returned schema_query selects exactly that one __schema
\* selection.
C7_IntrospectionSplit ==
    /\ (Returned /\ SchemaIndices # {}) =>
          /\ \A n \in Nodes(result.query) :
                /\ n.key # "__schema"
                /\ n.field # Nothing => n.field[1].name # "__schema"
          /\ \A c \in 1..Len(Children(result.query)) :
                \E i \in 1..Len(trace) :
                    /\ trace[i].event = "fields"
                    /\ trace[i].root = RootFor(Operation)
                    /\ trace[i].name = Children(result.query)[c].field[1].name
                    /\ trace[i].name # "__schema"
          /\ result.schema_query # Nothing
          /\ SchemaQuerySelections(result.schema_query[1]) = <<FirstSchemaSelection>>
    /\ (calls >= 1 /\ PlainTopLevel /\ SchemaIndices # {}) =>
          /\ Returned
          /\ {Children(result.query)[c].key : c \in 1..Len(Children(result.query))}
                = {TopLevel[i].name : i \in 1..Len(TopLevel)} \ {"__schema"}

\* C7 witness: the call on { __schema a } has returned.
C7_Witness ==
    /\ Returned
    /\ Len(TopLevel) = 2
    /\ PlainTopLevel
    /\ TopLevel[1].name = "__schema"
    /\ TopLevel[2].name = "a"
    /\ Len(Children(result.query)) = 1

\* C8: schema_query is None exactly when no top-level selection of the
\* operation is named __schema; when it is built it has the definitions of the
\* input document in their order, each fragment definition unchanged and the
\* operation definition, at its index, replaced by one whose selection set is
\* the reduced one.
C8_SchemaQueryFrame ==
    Returned =>
        /\ (result.schema_query = Nothing) <=> (SchemaIndices = {})
        /\ result.schema_query # Nothing =>
              LET definitions == result.schema_query[1].definitions
              IN  /\ Len(definitions) = Len(document.definitions)
                  /\ \A i \in 1..Len(definitions) :
                        i # OperationIndex => definitions[i] = document.definitions[i]
                  /\ definitions[OperationIndex]
                        = [Operation EXCEPT !.selection_set = OwnList]
                  /\ result.schema_query[1].selections = <<FirstSchemaSelection>>

\* C8 witness: a schema_query was built for a document whose fragment
\* definition stands before its operation.
C8_Witness ==
    /\ Returned
    /\ result.schema_query # Nothing
    /\ Len(document.definitions) = 2
    /\ OperationIndex = 2
    /\ result.schema_query[1].definitions[1] = document.definitions[1]

----------------------------------------------------------------------------
\* Fragments

RECURSIVE CopySelections(_, _)
\* the selections written out again: every selection set among them gets a
\* list of its own, as the parser gives it
CopySelections(heap, selections) ==
    IF selections = <<>> THEN [heap |-> heap, nodes |-> <<>>]
    ELSE LET s == Head(selections)
             leaf == s.kind = "FragmentSpread" \/ s.selection_set = NoList
             sub == IF leaf THEN [heap |-> heap, nodes |-> <<>>]
                    ELSE CopySelections(heap, heap[s.selection_set])
             heap1 == IF leaf THEN heap ELSE Append(sub.heap, sub.nodes)
             node == IF leaf THEN s ELSE [s EXCEPT !.selection_set = Len(heap1)]
             rest == CopySelections(heap1, Tail(selections))
         IN  [heap |-> rest.heap, nodes |-> <<node>> \o rest.nodes]

\* the document in which the selections of list source are written in place
\* of the selection at position i of list l
Inlined(heap, l, i, source) ==
    LET c == CopySelections(heap, heap[source])
    IN  [c.heap EXCEPT ![l] = SubSeq(heap[l], 1, i - 1) \o c.nodes
                                \o SubSeq(heap[l], i + 1, Len(heap[l]))]

\* the list a fragment spread or inline fragment without directives stands
\* for, NoList for any other selection
FragmentSource(s) ==
    IF s.directives # <<>> THEN NoList
    ELSE IF s.kind = "InlineFragment" THEN s.selection_set
    ELSE IF s.kind = "FragmentSpread" /\ s.name \in DOMAIN FragmentTable(document)
    THEN FragmentTable(document)[s.name].selection_set
    ELSE NoList

SameTree(outcome1, outcome2) ==
    /\ outcome1.status = outcome2.status
    /\ outcome1.status = "returned" => outcome1.query = outcome2.query

\* C9 as claimed: writing the fields of a fragment spread's or an inline
\* fragment's selection set in its place gives the same Request tree, for
\* every spread and inline fragment of the document of a first call.
C9_FragmentTransparency ==
    calls = 1 =>
        \A l \in 1..Len(before) :
            \A i \in 1..Len(before[l]) :
                FragmentSource(before[l][i]) # NoList =>
                    SameTree(result,
                             Outcome(request_from_graphql_document(
                                 document,
                                 Inlined(before, l, i, FragmentSource(before[l][i])),
                                 variables)))

----------------------------------------------------------------------------
\* Field lookup

TargetOf(request) ==
    IF request.field = Nothing THEN RootFor(Operation) ELSE request.field[1].target

----------------------------------------------------------------------------
\* Success and failure of a call

RECURSIVE Resolves(_, _, _, _)
\* every field name of the selections resolves in the registry of its target
\* type, every spread names a fragment definition and every directive is skip
\* or include, through the selections that pass their directives
Resolves(heap, selections, type, fuel) ==
    \/ fuel = 0
    \/ \A i \in 1..Len(selections) :
          LET s == selections[i]
          IN  /\ \A k \in 1..Len(s.directives) : ~Unknown(s.directives[k])
              /\ PassesDirectives(s, variables) =>
                    IF s.kind = "InlineFragment"
                    THEN Resolves(heap, heap[s.selection_set], type, fuel - 1)
                    ELSE IF s.kind = "FragmentSpread"
                    THEN /\ s.name \in DOMAIN FragmentTable(document)
                         /\ Resolves(heap, heap[FragmentTable(document)[s.name].selection_set],
                                     type, fuel - 1)
                    ELSE \/ s.name = "__schema"
                         \/ /\ s.name \in DOMAIN Registry(type)
                            /\ s.selection_set # NoList =>
                                  Resolves(heap, heap[s.selection_set],
                                           Registry(type)[s.name].target, fuel - 1)

\* C1 as claimed: a call on a document with one operation returns if and only
\* if every field name resolves in the registry of its target type and every
\* directive is recognized, and fails with the error of the offending item
\* (a name that is not found, an unknown directive) otherwise.
C1_ReturnsIffEverythingResolves ==
    (calls >= 1 /\ SingleOperation) =>
        /\ Returned <=> Resolves(before, TopLevel, RootFor(Operation), RecursionLimit + 1)
        /\ result.status = "raised" => result.error.type \in {"KeyError", "Exception"}

----------------------------------------------------------------------------
\* Undefined fragments

Undefined(s) == s.kind = "FragmentSpread" /\ s.name \notin DOMAIN FragmentTable(document)

RECURSIVE ReachesUndefined(_, _, _, _)
\* the expansion of the selections comes to a spread of an undefined name,
\* through the spreads and inline fragments that pass their directives
ReachesUndefined(heap, selections, vs, fuel) ==
    /\ fuel > 0
    /\ \E i \in 1..Len(selections) :
          LET s == selections[i]
          IN  /\ PassesDirectives(s, vs)
              /\ \/ Undefined(s)
                 \/ /\ s.kind = "InlineFragment"
                    /\ ReachesUndefined(heap, heap[s.selection_set], vs, fuel - 1)
                 \/ /\ s.kind = "FragmentSpread" /\ ~Undefined(s)
                    /\ ReachesUndefined(heap,
                                        heap[FragmentTable(document)[s.name].selection_set],
                                        vs, fuel - 1)

\* C11: a fragment spread of a name that no fragment definition of the
\* document defines makes the compilation fail with KeyError for that name:
\* expanding such a spread raises it whenever the spread passes its directives,
\* a call whose first selection is such a spread fails with it, and no
\* selection set that was compiled without error came to such a spread.
C11_UndefinedFragmentFails ==
    calls >= 1 =>
        /\ \A s \in AllSelections :
              LET env == [fragments |-> FragmentTable(document), variables |-> variables]
                  r == AddFieldsLoop(before, <<s>>, 1, <<>>, env, 1)
                  include == _should_include_node(s, variables)
              IN  (Undefined(s) /\ ~Raised(include) /\ include.val) =>
                      /\ Raised(r) /\ r.err[1] = [type |-> "KeyError", arg |-> s.name]
                      /\ FirstEvaluated(s) =>
                            RaisedError("KeyError") /\ result.error.arg = s.name
        /\ \A e \in SelectionsEvents :
              ~ReachesUndefined(e.heap, e.heap[e.ast.selection_set], variables,
                                RecursionLimit + 1)

\* C11 witness: a call failed with KeyError for the name of an undefined
\* fragment that is spread below the top level, behind another selection.
C11_Witness ==
    /\ RaisedError("KeyError")
    /\ result.error.arg = "F"
    /\ Len(document.definitions) = 1
    /\ \A i \in 1..Len(TopLevel) : TopLevel[i].kind = "Field"
    /\ \E s \in AllSelections : Undefined(s) /\ s.name = "F"

----------------------------------------------------------------------------
\* The operation of the document

OperationCount ==
    Cardinality({i \in 1..Len(document.definitions) :
                    document.definitions[i].kind = "OperationDefinition"})

\* C12: the call needs exactly one operation definition among the definitions
\* of the document: with none it fails with the no-operation error, with two or
\* more with the multiple-operations error, and with one with neither, however
\* many fragment definitions the document has.
C12_ExactlyOneOperation ==
    calls >= 1 =>
        /\ OperationCount = 0 =>
              RaisedError("ValueError") /\ result.error.arg = "no operation"
        /\ OperationCount >= 2 =>
              RaisedError("ValueError") /\ result.error.arg = "multiple operations"
        /\ OperationCount = 1 => ~RaisedError("ValueError")

\* C12 witness: a call on a document of a fragment definition and one
\* operation has returned.
C12_Witness ==
    /\ Returned
    /\ OperationCount = 1
    /\ Len(document.definitions) = 2
    /\ document.definitions[1].kind = "FragmentDefinition"

\* the registries of the roots that the last call consulted, at a lookup or for
\* a selection set it compiled
ConsultedRoots ==
    {trace[i].root : i \in {j \in 1..Len(trace) : trace[j].event # "arguments"}}
        \cap {query_root, mutation_root}

\* C13: the main tree is built against mutation_root when the one operation is
\* a mutation and against query_root for every other kind of operation, and
\* the registry of the other root is never consulted: the call consults the
\* chosen root only, and a call that selects a field of one root only returns
\* exactly when that root is the chosen one.
C13_RootByOperationKind ==
    (calls >= 1 /\ SingleOperation) =>
        LET chosen == IF Operation.operation = "mutation" THEN "Mutation" ELSE "Root"
        IN  /\ ConsultedRoots \subseteq {chosen}
            /\ (Len(TopLevel) = 1 /\ TopLevel[1] = Field("a", None, <<>>, <<>>, NoList)) =>
                  /\ Returned <=> chosen = "Root"
                  /\ ~Returned => RaisedError("KeyError") /\ result.error.arg = "a"
                  /\ ConsultedRoots = {chosen}

\* C13 witness: a call on `mutation { b }` has returned the tree of the field b
\* of the mutation root.
C13_Witness ==
    /\ Returned
    /\ OperationCount = 1
    /\ Operation.operation = "mutation"
    /\ ConsultedRoots = {mutation_root}
    /\ Len(Children(result.query)) = 1
    /\ Children(result.query)[1].field[1] = Registry(mutation_root)["b"]

----------------------------------------------------------------------------
\* The document across calls

\* C14 as claimed: the call leaves its input document unchanged: after it
\* has returned or raised, every selection list holds the selections it held
\* before the call.
C14_DocumentUnchanged == calls >= 1 => lists = before

\* C15 as claimed: every call of a sequence of calls on one document object
\* has the outcome (Request tree, schema_query, error) that the same call has
\* on a fresh copy of the document, as the parser built it.
C15_CallsAreIndependent ==
    calls >= 1 =>
        LET fresh == Outcome(request_from_graphql_document(document, parsed, variables))
        IN  (~CutOff(result) /\ ~CutOff(fresh)) => SameTree(result, fresh)

----------------------------------------------------------------------------
\* Errors

\* the selections of a merged sequence that get a Request
Compiled(merged) == {i \in 1..Len(merged) : _field_name(merged[i]) # "__schema"}

\* C16: every error aborts the compilation of the whole document.  A call
\* that raised hands back neither a Request tree nor a schema_query, whatever
\* part of the tree was compiled before the error; a call that returned has
\* had no failing step: every lookup found its field, every selection set of
\* the tree was collected and merged without error, and every merged selection
\* has its Request, with its children when it has a selection set.
C16_ErrorsAbortTheCall ==
    calls >= 1 =>
        /\ result.status \in {"returned", "raised"}
        /\ result.status = "raised" =>
              /\ DOMAIN result = {"status", "error"}
              /\ \A e \in SelectionsEvents : e.ast.kind # "OperationDefinition"
        /\ Returned =>
              /\ DOMAIN result = {"status", "query", "schema_query"}
              /\ \A i \in 1..Len(trace) :
                    trace[i].event = "fields" =>
                        trace[i].name \in DOMAIN Registry(trace[i].root)
              /\ TraceCoversTree
              /\ \A e \in SelectionsEvents :
                    LET env == [fragments |-> FragmentTable(document),
                                variables |-> variables]
                        collected == _collect_fields(e.heap, e.ast, env, 1)
                    IN  /\ ~Raised(collected)
                        /\ ~Raised(_merge_fields(e.heap, collected.val).out)
                        /\ Len(e.selections) = Cardinality(Compiled(e.merged))
                        /\ \A i \in 1..Len(e.selections) :
                              \E j \in Compiled(e.merged) :
                                  /\ field_key(e.merged[j]) = e.selections[i].key
                                  /\ (e.merged[j].selection_set = NoList)
                                        <=> (e.selections[i].selections = Nothing)

\* C16 witness: a call raised on a field lookup after it had compiled the
\* selection set of an earlier field, as in { a { c } c }.
C16_Witness ==
    /\ RaisedError("KeyError")
    /\ \E e \in SelectionsEvents : e.ast.kind = "Field" /\ Len(e.selections) = 1
    /\ trace[Len(trace)].event = "fields"
    /\ trace[Len(trace)].root = query_root

----------------------------------------------------------------------------
\* The Requests of a tree

\* C17: in every returned Request tree every node, the root included, has an
\* empty join_selections slot.
C17_JoinSelectionsEmpty ==
    Returned => \A n \in Nodes(result.query) : n.join_selections = <<>>

\* C17 witness: a returned tree of three levels, root, child and grandchild.
C17_Witness ==
    /\ Returned
    /\ \E i \in 1..Len(Children(result.query)) :
          Children(Children(result.query)[i]) # <<>>

----------------------------------------------------------------------------
\* Merging selections of one output key

\* the top-level selection set is two plain selections of the field a of the
\* root, one without a selection set and one selecting the leaf field c
LeafAndNonLeaf ==
    /\ SingleOperation
    /\ Operation.operation = "query"
    /\ Len(TopLevel) = 2
    /\ \A i \in 1..2 :
          /\ TopLevel[i].kind = "Field"
          /\ TopLevel[i].name = "a"
          /\ TopLevel[i].alias = None
          /\ TopLevel[i].directives = <<>>
    /\ \E i \in 1..2 :
          /\ TopLevel[i].selection_set # NoList
          /\ before[TopLevel[i].selection_set] = <<Field("c", None, <<>>, <<>>, NoList)>>
          /\ TopLevel[3 - i].selection_set = NoList

\* C18 as claimed: when two selections share an output key and exactly one of
\* them has a selection set, the merge succeeds in either order and yields
\* one Request, whose children come from the side with the selection set.
C18_LeafAndNonLeafMerge ==
    (calls >= 1 /\ LeafAndNonLeaf) =>
        /\ Returned
        /\ Len(Children(result.query)) = 1
        /\ Children(result.query)[1].key = "a"
        /\ Len(Children(Children(result.query)[1])) = 1
        /\ Children(Children(result.query)[1])[1].key = "c"

\* C18, the order that the code handles: the selection with the selection set
\* first, the leaf second.
C18_NonLeafThenLeafMerge ==
    (calls >= 1 /\ LeafAndNonLeaf /\ TopLevel[1].selection_set # NoList) =>
        /\ Returned
        /\ Len(Children(result.query)) = 1
        /\ Children(result.query)[1].key = "a"
        /\ Len(Children(Children(result.query)[1])) = 1
        /\ Children(Children(result.query)[1])[1].key = "c"

RECURSIVE SubSelections(_, _, _)
\* the sub-selections of the selections of one output key, one occurrence
\* after the other
SubSelections(heap, collected, key) ==
    IF collected = <<>> THEN <<>>
    ELSE (IF field_key(Head(collected)) = key /\ Head(collected).selection_set # NoList
          THEN heap[Head(collected).selection_set] ELSE <<>>)
         \o SubSelections(heap, Tail(collected), key)

RECURSIVE MergedKeys(_, _)
\* the output keys of a flattened sequence in the order of their first
\* occurrence, without the keys whose first selection is named __schema
MergedKeys(fields, seen) ==
    IF fields = <<>> THEN <<>>
    ELSE IF field_key(Head(fields)) \in seen THEN MergedKeys(Tail(fields), seen)
    ELSE (IF _field_name(Head(fields)) = "__schema" THEN <<>>
          ELSE <<field_key(Head(fields))>>)
         \o MergedKeys(Tail(fields), seen \cup {field_key(Head(fields))})

Keys(requests) == [i \in 1..Len(requests) |-> requests[i].key]

\* the selections of the output key in the sequence all have selection sets
AllNonLeaf(collected, key) ==
    \A i \in 1..Len(collected) :
        field_key(collected[i]) = key => collected[i].selection_set # NoList

\* C19: when the selections that share an output key have selection sets, the
\* one Request of the key has as children the merge of all their
\* sub-selections in the order of occurrence, the children of the first
\* selection first: no sub-selection of a merged occurrence is lost.
C19_SubSelectionsMerged ==
    Returned =>
        \A e \in SelectionsEvents :
            \A i \in 1..Len(e.selections) :
                LET key == e.selections[i].key
                IN  AllNonLeaf(e.collected, key) =>
                        Keys(Children(e.selections[i]))
                            = MergedKeys(Flattened(e.heap,
                                                   SubSelections(e.heap, e.collected, key),
                                                   variables, RecursionLimit + 1),
                                         {})

\* C19 witness: a returned call on a document like { a { c } a { a c } }: the
\* second selection of the key brings a child that the first one has not.
C19_Witness ==
    /\ Returned
    /\ \E e \in SelectionsEvents :
          \E i, j \in 1..Len(e.collected) :
              /\ i < j
              /\ field_key(e.collected[i]) = field_key(e.collected[j])
              /\ e.collected[i] # e.collected[j]
              /\ AllNonLeaf(e.collected, field_key(e.collected[i]))
              /\ \E k \in 1..Len(e.selections) :
                    /\ e.selections[k].key = field_key(e.collected[i])
                    /\ Len(Children(e.selections[k]))
                          > Len(e.heap[e.collected[i].selection_set])

----------------------------------------------------------------------------
\* Fragment cycles

\* the first top-level selection spreads F, and the first selection of F
\* spreads F again, both without directives
SelfSpreadingFragment ==
    /\ SingleOperation
    /\ \A i \in 1..Len(TopLevel) : TopLevel[i].kind # "InlineFragment"
    /\ TopLevel[1] = FragmentSpread("F", <<>>)
    /\ "F" \in DOMAIN FragmentTable(document)
    /\ before[FragmentTable(document)["F"].selection_set][1] = FragmentSpread("F", <<>>)

\* C20 as claimed: expanding a selection set whose included fragment spreads
\* form a cycle fails with the fragment-cycle error of a visited-set guard.
C20_CycleFailsWithCycleError ==
    (calls >= 1 /\ SelfSpreadingFragment) => RaisedError("FragmentCycleError")

\* C20, what the code does: the expansion recurses without bound and ends in
\* the RecursionError of the interpreter.
C20_CycleRecursesWithoutBound ==
    (calls >= 1 /\ SelfSpreadingFragment) => RaisedError("RecursionError")

----------------------------------------------------------------------------
\* Termination

RECURSIVE HoldsSpread(_, _)
\* a fragment spread stands among the selections or below them
HoldsSpread(heap, selections) ==
    \E i \in 1..Len(selections) :
        \/ selections[i].kind = "FragmentSpread"
        \/ /\ selections[i].kind # "FragmentSpread"
           /\ selections[i].selection_set # NoList
           /\ HoldsSpread(heap, heap[selections[i].selection_set])

\* no fragment definition of the parsed document holds a spread, so the
\* spreads of the document form no cycle
AcyclicFragments ==
    \A i \in 1..Len(document.definitions) :
        document.definitions[i].kind = "FragmentDefinition"
            => ~HoldsSpread(parsed, parsed[document.definitions[i].selection_set])

\* C21 as claimed: the call on a finite document whose fragment spreads are
\* acyclic completes, returning or raising, within a number of steps bounded
\* by the size of the expanded selection tree: it does not recurse until the
\* interpreter's limit or grow a list until memory runs out.
C21_AcyclicDocumentsTerminate ==
    (calls = 1 /\ AcyclicFragments) => ~CutOff(result)

----------------------------------------------------------------------------
\* Argument binding

\* the invocations of the binder in the last call, in order
BinderEvents ==
    {trace[i] : i \in {j \in 1..Len(trace) : trace[j].event = "arguments"}}

BinderCount == Cardinality({j \in 1..Len(trace) : trace[j].event = "arguments"})

RECURSIVE SumNodes(_, _)
RECURSIVE NodeCount(_)
\* the number of Requests in the trees of requests[i..]
SumNodes(requests, i) ==
    IF i > Len(requests) THEN 0
    ELSE NodeCount(requests[i]) + SumNodes(requests, i + 1)

\* the number of Requests of a tree
NodeCount(request) == 1 + SumNodes(Children(request), 1)

\* C22: in a returned compilation the binder get_argument_values is invoked
\* once for each non-root Request of the tree and for nothing else: every
\* invocation is for a merged (first-seen, included) field selection that is
\* not __schema and gives one node its descriptor and arguments; the root
\* Request has key None, no field descriptor and empty args, and no invocation
\* of the binder is made for it.
C22_ArgumentsBoundOncePerNode ==
    Returned =>
        /\ result.query.key = None
        /\ result.query.field = Nothing
        /\ DOMAIN result.query.args = {}
        /\ BinderCount = NodeCount(result.query) - 1
        /\ \A b \in BinderEvents :
              /\ b.field # Nothing
              /\ b.ast.kind = "Field"
              /\ _field_name(b.ast) # "__schema"
              /\ \E e \in SelectionsEvents : \E i \in 1..Len(e.merged) : e.merged[i] = b.ast
              /\ \E n \in Nodes(result.query) :
                    n.key = field_key(b.ast) /\ n.field = b.field /\ n.args = b.args
        /\ \A n \in Nodes(result.query) \ {result.query} :
              \E b \in BinderEvents :
                  n.key = field_key(b.ast) /\ n.field = b.field /\ n.args = b.args

\* C22 witness: a returned tree with a node that binds an argument, built from
\* a sequence that lost a selection to the merge, a directive or __schema.
C22_Witness ==
    /\ Returned
    /\ \E n \in Nodes(result.query) : DOMAIN n.args # {}
    /\ \E e \in SelectionsEvents :
          /\ Len(e.selections) >= 1
          /\ Len(e.collected) > Len(e.selections)
    /\ BinderCount = NodeCount(result.query) - 1

----------------------------------------------------------------------------
\* Inline fragments at the top level

\* the operation is the query { ... on Root { a } }
TopLevelInlineFragment ==
    /\ SingleOperation
    /\ Operation.operation = "query"
    /\ Len(TopLevel) = 1
    /\ TopLevel[1].kind = "InlineFragment"
    /\ TopLevel[1].directives = <<>>
    /\ before[TopLevel[1].selection_set] = <<Field("a", None, <<>>, <<>>, NoList)>>

\* C23 as claimed: the document whose operation selects { ... on Root { a } }
\* compiles to a main tree whose root has the single child a, with
\* schema_query None.
C23_TopLevelInlineFragmentCompiles ==
    (calls >= 1 /\ TopLevelInlineFragment) =>
        /\ Returned
        /\ Len(Children(result.query)) = 1
        /\ Children(result.query)[1].key = "a"
        /\ result.schema_query = Nothing

\* the call on { ... on Root { a } } fails in find, on the `name` attribute
\* that an InlineFragment does not have, before anything is compiled
C23_TopLevelInlineFragmentFails ==
    (calls >= 1 /\ TopLevelInlineFragment) =>
        /\ RaisedError("AttributeError")
        /\ trace = <<>>

----------------------------------------------------------------------------
\* Introspection selections that reach the root through fragments

\* the invocation of _graphql_selections on the operation, in a returned call
RootEvent == CHOOSE e \in SelectionsEvents : e.ast.kind = "OperationDefinition"

\* the root-level sequence, fragments expanded and directives applied, holds a
\* field named __schema
SchemaCollected ==
    \E i \in 1..Len(RootEvent.collected) : _field_name(RootEvent.collected[i]) = "__schema"

\* C24 as claimed: whenever the flattened root-level selection sequence holds
\* a field named __schema, the returned DocumentRequest has a schema_query
\* whose operation selects a __schema field, also when the field came through
\* a fragment spread or an inline fragment.
C24_IntrospectionNeverDiscarded ==
    (Returned /\ SchemaCollected) =>
        /\ result.schema_query # Nothing
        /\ \E i \in 1..Len(SchemaQuerySelections(result.schema_query[1])) :
              _field_name(SchemaQuerySelections(result.schema_query[1])[i]) = "__schema"

\* a __schema field of the flattened root-level sequence is in the
\* schema_query exactly when a __schema selection is written in the
\* operation's own selection list; it is never in the main tree
C24_IntrospectionKeptWhenWrittenAtTopLevel ==
    (Returned /\ SchemaCollected) =>
        /\ (result.schema_query # Nothing) <=> (SchemaIndices # {})
        /\ \A n \in Nodes(result.query) : n.key # "__schema"

----------------------------------------------------------------------------
\* Excluded selections

\* _should_include_node answers False for the selection
Excluded(s) == _should_include_node(s, variables) = Return(FALSE)

\* selections that make a compilation fail wherever they are walked: a spread
\* of a fragment that no document defines, a field that no type has, a field
\* under a directive that is neither skip nor include
PoisonSelections ==
    <<FragmentSpread("U", <<>>),
      Field("zz", None, <<>>, <<>>, NoList),
      Field("a", None, <<>>, <<Directive("deprecated", <<>>)>>, NoList)>>

\* the selection of the same kind under the same directives, that names an
\* undefined fragment or an unknown field and holds PoisonSelections in the
\* list at index p
Poison(s, p) ==
    IF s.kind = "FragmentSpread" THEN FragmentSpread("U", s.directives)
    ELSE IF s.kind = "Field" THEN Field("zz", s.alias, s.arguments, s.directives, p)
    ELSE InlineFragment(s.directives, p)

\* the lists with the selection at position i of list l poisoned
Poisoned(heap, l, i) ==
    LET p == Len(heap) + 1
    IN  Append([heap EXCEPT ![l][i] = Poison(@, p)], PoisonSelections)

\* the same error, or the same main tree
SameOutcome(outcome1, outcome2) ==
    /\ outcome1.status = outcome2.status
    /\ outcome1.status = "raised" => outcome1.error = outcome2.error
    /\ outcome1.status = "returned" => outcome1.query = outcome2.query

\* C25 as claimed: nothing but its directives is inspected of a selection
\* that its directives exclude, so the selection cannot make the compilation
\* fail: the call has the outcome of the call on the document without it.
C25_ExcludedSelectionsNeverAbort ==
    calls >= 1 =>
        \A l \in 1..Len(before) :
            \A i \in 1..Len(before[l]) :
                Excluded(before[l][i]) =>
                    SameOutcome(result,
                                Outcome(request_from_graphql_document(
                                    document, [before EXCEPT ![l] = RemoveAt(@, i)],
                                    variables)))

\* the walk of _add_fields looks at nothing but the directives of an excluded
\* selection: with the selection replaced by one of its kind that spreads an
\* undefined fragment or names an unknown field, and that holds an undefined
\* spread, an unknown field and an unknown directive beneath it, the call has
\* the same outcome
C25_ExcludedSelectionsNotWalked ==
    calls >= 1 =>
        \A l \in 1..Len(before) :
            \A i \in 1..Len(before[l]) :
                Excluded(before[l][i]) =>
                    SameOutcome(result,
                                Outcome(request_from_graphql_document(
                                    document, Poisoned(before, l, i), variables)))

\* the outcome is that of the document without the excluded selection, unless
\* the selection is an inline fragment of the operation's own selection list
C25_ExcludedBelowFind ==
    calls >= 1 =>
        \A l \in 1..Len(before) :
            \A i \in 1..Len(before[l]) :
                (/\ Excluded(before[l][i])
                 /\ ~(SingleOperation /\ l = Operation.selection_set
                        /\ before[l][i].kind = "InlineFragment")) =>
                    SameOutcome(result,
                                Outcome(request_from_graphql_document(
                                    document, [before EXCEPT ![l] = RemoveAt(@, i)],
                                    variables)))

----------------------------------------------------------------------------
\* Selections that share a key

\* the selection at position j of list l with the field name and the
\* arguments of the selection at position i, under the key it had
Renamed(heap, l, i, j) ==
    [heap EXCEPT ![l][j] = [@ EXCEPT !.name = heap[l][i].name,
                                     !.alias = field_key(heap[l][j]),
                                     !.arguments = heap[l][i].arguments]]

\* two field selections of one list under one key, the first without
\* directives, that differ in field name or in arguments
SharedKey(l, i, j) ==
    /\ i < j
    /\ before[l][i].kind = "Field"
    /\ before[l][j].kind = "Field"
    /\ before[l][i].directives = <<>>
    /\ field_key(before[l][i]) = field_key(before[l][j])
    /\ \/ before[l][i].name # before[l][j].name
       \/ before[l][i].arguments # before[l][j].arguments

\* C26: the Request built for an output key has the field name, the field
\* descriptor and the argument values of the first selection of the flattened
\* sequence under that key; a later selection under the key that names
\* another field or passes other arguments changes nothing but through its
\* sub-selections: the call has the outcome of the call on the document in
\* which the later selection names the field and passes the arguments of the
\* earlier one.
C26_FirstSeenSelectionWins ==
    /\ \A e \in SelectionsEvents :
          \A c \in 1..Len(e.selections) :
              LET child == e.selections[c]
                  first == e.collected[FirstOccurrence(e.collected, child.key)]
              IN  /\ _field_name(first) \in DOMAIN Registry(e.root)
                  /\ child.field = Some(Registry(e.root)[_field_name(first)])
                  /\ child.args = get_argument_values(child.field[1].args,
                                                      first.arguments, variables)
    /\ calls >= 1 =>
          \A l \in 1..Len(before) :
              \A i, j \in 1..Len(before[l]) :
                  SharedKey(l, i, j) =>
                      SameOutcome(result,
                                  Outcome(request_from_graphql_document(
                                      document, Renamed(before, l, i, j), variables)))

\* C26 witness: a returned call on an operation whose own list holds two
\* selections of one key that differ in field name or in arguments, as in
\* {a a: b}, with the Request of the key built for the field of the first.
C26_Witness ==
    /\ Returned
    /\ \E i, j \in 1..Len(TopLevel) :
          /\ SharedKey(Operation.selection_set, i, j)
          /\ \E c \in 1..Len(Children(result.query)) :
                /\ Children(result.query)[c].key = field_key(TopLevel[i])
                /\ Children(result.query)[c].field[1].name = TopLevel[i].name

=============================================================================
